---- MODULE Spec2Model ----
(***************************************************************************)
(* A model of Downloader (src/src/Downloader.cpp): the download dialog of  *)
(* QSimpleUpdater.  The Downloader owns one QNetworkReply pointer, m_reply, *)
(* and one QSaveFile pointer, m_saveFile.  Its slots are driven by the     *)
(* signals of every QNetworkReply it ever connected (startDownload never   *)
(* disconnects or deletes the reply it replaces), and every slot reads the *)
(* reply m_reply points to at the time the slot runs.                      *)
(***************************************************************************)
EXTENDS Integers, Sequences, FiniteSets, TLC

\* Bounds of the model.
MaxReplies == 2   \* requests issued over one run (host starts + redirect restarts)
BodyLen == 1      \* bytes in the body of every response
MaxNameLen == 4   \* characters in a filename given to filename resolution

(***************************************************************************)
(* Strings are sequences of one-character strings.                         *)
(***************************************************************************)
FilenameToken == <<"f", "i", "l", "e", "n", "a", "m", "e", "=">>
DefaultFileName ==
    <<"Q", "S", "U", "_", "U", "p", "d", "a", "t", "e", ".", "b", "i", "n">>

\* QString::indexOf(pat, from): 0-based position of the first match, or -1.
IndexOf(s, pat, from) ==
    LET hits == {i \in from..(Len(s) - Len(pat)) :
                     SubSeq(s, i + 1, i + Len(pat)) = pat}
    IN  IF hits = {} THEN -1 ELSE CHOOSE i \in hits : \A j \in hits : i <= j

\* QString::mid(pos): the rest of the string from 0-based position pos.
Mid(s, pos) == IF pos >= Len(s) THEN <<>> ELSE SubSeq(s, pos + 1, Len(s))

\* QString::mid(pos, n) with n >= 0.
MidN(s, pos, n) ==
    IF pos >= Len(s) THEN <<>>
    ELSE SubSeq(s, pos + 1, IF pos + n > Len(s) THEN Len(s) ELSE pos + n)

\* QString::left(n) with n >= 0.
Left(s, n) == IF n >= Len(s) THEN s ELSE SubSeq(s, 1, n)

\* QString::remove(ch): every occurrence of the character removed.
Remove(s, ch) == SelectSeq(s, LAMBDA c : c # ch)

\* QFileInfo(filename).fileName(): what follows the last '/'.
FileInfoFileName(s) ==
    LET slashes == {i \in 1..Len(s) : s[i] = "/"}
    IN  IF slashes = {} THEN s
        ELSE Mid(s, CHOOSE i \in slashes : \A j \in slashes : j <= i)

\* The value Downloader::setFileName stores in m_fileName.
SanitizedFileName(file) ==
    LET sanitizedFile == Remove(Remove(file, "\""), ";")
    IN  IF sanitizedFile = <<>> THEN DefaultFileName ELSE sanitizedFile

\* The filename Downloader::metaDataChanged extracts from a Content-Disposition
\* value that holds "filename=" at 0-based position filenamePos.
ExtractedFileName(contentDisposition, filenamePos) ==
    LET filename == Mid(contentDisposition, filenamePos + 9)
        cut ==
            IF Len(filename) > 0 /\ filename[1] = "\""
            THEN LET endQuotePos == IndexOf(filename, <<"\"">>, 1)
                 IN  IF endQuotePos > 0 THEN MidN(filename, 1, endQuotePos - 1)
                     ELSE filename
            ELSE LET semi == IndexOf(filename, <<";">>, 0)
                     endPos == IF semi < 0 THEN IndexOf(filename, <<" ">>, 0)
                               ELSE semi
                 IN  IF endPos > 0 THEN Left(filename, endPos) ELSE filename
    IN  FileInfoFileName(cut)

(***************************************************************************)
(* The servers.  A URL either redirects to another URL or serves a body of *)
(* BodyLen bytes; a response may carry a Content-Disposition header.  The  *)
(* header of a response is a sequence of length 0 (no header) or 1.        *)
(***************************************************************************)
URLs == {"r2", "r1", "g"}

\* The empty QUrl, which also stands for a malformed one: no server answers a
\* request for it, the reply ends with a protocol error.
EmptyUrl == ""

\* QNetworkRequest::RedirectionTargetAttribute of a response from url ("" = none).
RedirectOf(url) ==
    CASE url = "r2" -> "r1"
      [] url = "r1" -> "g"
      [] OTHER -> ""

\* x; filename=d/a;y        (unquoted, with a directory and a parameter after it)
HeaderA ==
    <<"x", ";", " ">> \o FilenameToken \o <<"d", "/", "a", ";", "y">>

\* The Content-Disposition header of a response from url.
ContentDispositionOf(url) == IF url = "r1" THEN <<HeaderA>> ELSE <<>>

\* The names the host passes to setFileName.
HostFileNames == {<<>>, <<"\"", "a", ";">>}

FileNames == {DefaultFileName, <<"a">>}

Null == [null |-> TRUE]
Absent == [absent |-> TRUE]
Old == [old |-> TRUE]

VARIABLES
    replies,           \* every QNetworkReply created by m_manager->get, in order:
                       \* [url, len, hdr, rcv, rd, st, err]
    m_reply,           \* index in replies of the reply m_reply points to, 0 before the first
    m_fileName,        \* Downloader::m_fileName
    m_saveFile,        \* Null, or the open QSaveFile: [name, rid, bytes]
    m_mandatoryUpdate, \* Downloader::m_mandatoryUpdate
    visible,           \* whether the dialog is shown
    disk,              \* content of downloadDir/<name> for each name
    temps,             \* number of QSaveFile temporary files on disk
    events,            \* the downloadFinished signals emitted, in order
    session,           \* number of startDownload calls made by the host
    exits,             \* number of exit(0) calls
    now,               \* QDateTime::currentDateTime().toSecsSinceEpoch()
    m_startTime,       \* Downloader::m_startTime
    timeLabel,         \* text of m_ui->timeLabel
    crashed,           \* the process was killed by a trap
    cancelled,         \* <<s, k>>: the user confirmed the cancel prompt in session s
                       \* when k signals had been emitted
    last               \* the handler that ran last, and what it found

vars == <<replies, m_reply, m_fileName, m_saveFile, m_mandatoryUpdate, visible,
          disk, temps, events, session, exits, now, m_startTime, timeLabel,
          crashed, cancelled, last>>

\* The part of the state the slots work on, as one record.
St ==
    [replies |-> replies, m_reply |-> m_reply, m_fileName |-> m_fileName,
     m_saveFile |-> m_saveFile, visible |-> visible, disk |-> disk,
     temps |-> temps, events |-> events, exits |-> exits, now |-> now,
     m_startTime |-> m_startTime, timeLabel |-> timeLabel, crashed |-> crashed]

\* A reply that has finished emits no further signal, and the slots read only
\* the reply m_reply points to: what a finished reply other than that one
\* received is never read again, and is dropped from the state.
Forget(rs, cur) ==
    [i \in 1..Len(rs) |->
        IF rs[i].st = "fin" /\ i # cur
        THEN [rs[i] EXCEPT !.hdr = FALSE, !.rcv = 0, !.rd = 0]
        ELSE rs[i]]

Apply(S) ==
    /\ replies' = Forget(S.replies, S.m_reply)
    /\ m_reply' = S.m_reply
    /\ m_fileName' = S.m_fileName
    /\ m_saveFile' = S.m_saveFile
    /\ visible' = S.visible
    /\ disk' = S.disk
    /\ temps' = S.temps
    /\ events' = S.events
    /\ exits' = S.exits
    /\ m_startTime' = S.m_startTime
    /\ timeLabel' = S.timeLabel
    /\ crashed' = S.crashed

\* The reply m_manager->get returns for url, whose body will be len bytes long.
NewReply(url, len) ==
    [url |-> url, len |-> len, hdr |-> FALSE, rcv |-> 0, rd |-> 0, st |-> "run",
     err |-> FALSE]

\* QNetworkReply::isFinished
IsFinished(r) == r.st = "fin"

\* QNetworkReply::bytesAvailable
BytesAvailable(r) == r.rcv - r.rd

\* m_reply->attribute(RedirectionTargetAttribute): known once the headers arrived.
RedirectionTarget(r) == IF r.hdr THEN RedirectOf(r.url) ELSE ""

\* m_reply->header(ContentDispositionHeader): valid once the headers arrived.
ContentDisposition(r) == IF r.hdr THEN ContentDispositionOf(r.url) ELSE <<>>

\* QSaveFile::cancelWriting followed by delete: the temporary file is removed.
DiscardSaveFile(S) ==
    IF S.m_saveFile = Null THEN S
    ELSE [S EXCEPT !.m_saveFile = Null, !.temps = @ - 1]

\* m_saveFile->write(m_reply->read(m_reply->bytesAvailable()))
WriteAvailable(S) ==
    LET r == S.replies[S.m_reply]
    IN  [S EXCEPT !.m_saveFile.bytes = @ \o [i \in 1..BytesAvailable(r) |-> r.rd + i],
                  !.replies[S.m_reply].rd = r.rcv]

Init ==
    /\ replies = <<>>
    /\ m_reply = 0
    /\ m_fileName = <<>>
    /\ m_saveFile = Null
    /\ m_mandatoryUpdate = FALSE
    /\ visible = FALSE
    /\ disk = [n \in FileNames |-> IF n = DefaultFileName THEN Old ELSE Absent]
    /\ temps = 0
    /\ events = <<>>
    /\ session = 0
    /\ exits = 0
    /\ now = 0
    /\ m_startTime = 0
    /\ timeLabel = ""
    /\ crashed = FALSE
    /\ cancelled = {}
    /\ last = [op |-> "init", a |-> FALSE, b |-> FALSE]

(***************************************************************************)
(* The slots of Downloader, as functions of the state record.              *)
(***************************************************************************)

\* tr("Time remaining") + ": " + tr("unknown")
TimeUnknown == "Time remaining" \o ": " \o "unknown"

\* A startDownload that leaves the open QSaveFile alone.
startDownload_KeepsSaveFile(S, url, len) ==
    [S EXCEPT !.timeLabel = TimeUnknown,
              !.replies = Append(@, NewReply(url, len)),
              !.m_reply = Len(S.replies) + 1,
              !.m_startTime = S.now,
              !.visible = TRUE]

\* Downloader::startDownload(url); len is the length of the body the server
\* will send.
startDownload(S, url, len) ==
    LET S1 == DiscardSaveFile(S)
    IN  [S1 EXCEPT !.timeLabel = TimeUnknown,
                   !.replies = Append(@, NewReply(url, len)),
                   !.m_reply = Len(S.replies) + 1,
                   !.m_startTime = S.now,
                   !.visible = TRUE]

\* Downloader::setFileName(file)
setFileName(S, file) == [S EXCEPT !.m_fileName = SanitizedFileName(file)]

\* Downloader::metaDataChanged(), lines 407-452: contentDisposition is the
\* header m_reply holds, a sequence of length 0 (not valid) or 1.
metaDataChangedOn(S, contentDisposition) ==
    IF contentDisposition = <<>> THEN S
    ELSE LET filenamePos == IndexOf(contentDisposition[1], FilenameToken, 0)
         IN  IF filenamePos >= 0
             THEN setFileName(S, ExtractedFileName(contentDisposition[1], filenamePos))
             ELSE S

\* Downloader::metaDataChanged()
metaDataChanged(S) ==
    metaDataChangedOn(S, ContentDisposition(S.replies[S.m_reply]))

\* A processReceivedData that reads and drops what arrives while there is no
\* filename.
processReceivedData_DropsUnnamed(S, openOk, len) ==
    LET url == RedirectionTarget(S.replies[S.m_reply])
    IN  IF url # "" THEN startDownload(S, url, len)
        ELSE IF S.m_fileName = <<>>
        THEN [S EXCEPT !.replies[S.m_reply].rd = S.replies[S.m_reply].rcv]
        ELSE IF S.m_saveFile = Null
        THEN IF openOk
             THEN WriteAvailable(
                      [S EXCEPT !.m_saveFile = [name |-> S.m_fileName,
                                                rid |-> S.m_reply,
                                                bytes |-> <<>>],
                                !.temps = @ + 1])
             ELSE S
        ELSE WriteAvailable(S)

\* A processReceivedData that creates a QSaveFile on every call, also when
\* one is open.
processReceivedData_ReopensSaveFile(S, openOk, len) ==
    LET url == RedirectionTarget(S.replies[S.m_reply])
    IN  IF url # "" THEN startDownload(S, url, len)
        ELSE IF S.m_fileName = <<>> THEN S
        ELSE IF openOk
        THEN WriteAvailable(
                 [S EXCEPT !.m_saveFile = [name |-> S.m_fileName,
                                           rid |-> S.m_reply,
                                           bytes |-> <<>>],
                           !.temps = @ + 1])
        ELSE S

\* Downloader::processReceivedData(); openOk is the result of QSaveFile::open,
\* len the length of the body sent in answer to a restarted request.
processReceivedData(S, openOk, len) ==
    LET url == RedirectionTarget(S.replies[S.m_reply])
    IN  IF url # "" THEN startDownload(S, url, len)
        ELSE IF S.m_fileName = <<>> THEN S
        ELSE IF S.m_saveFile = Null
        THEN IF openOk
             THEN WriteAvailable(
                      [S EXCEPT !.m_saveFile = [name |-> S.m_fileName,
                                                rid |-> S.m_reply,
                                                bytes |-> <<>>],
                                !.temps = @ + 1])
             ELSE S
        ELSE WriteAvailable(S)

\* Downloader::finished(), lines 181-191: m_reply->error() != NoError.
finishedWithError(S) == DiscardSaveFile(S)

\* QNetworkReply::abort(): a reply that has not finished gets the error
\* OperationCanceledError and emits finished() from inside the call.
abortReply(S) ==
    LET r == S.replies[S.m_reply]
    IN  IF IsFinished(r) THEN S
        ELSE finishedWithError(
                 [S EXCEPT !.replies[S.m_reply] =
                               [r EXCEPT !.st = "fin", !.err = TRUE, !.rd = r.rcv]])

\* QNetworkReply::close(): unread data is dropped; a reply that has not
\* finished is cancelled as by abort().
closeReply(S) ==
    LET r == S.replies[S.m_reply]
    IN  IF IsFinished(r) THEN [S EXCEPT !.replies[S.m_reply].rd = r.rcv]
        ELSE abortReply(S)

\* bool fileSuccess of Downloader::finished(); commitOk is the result of
\* QSaveFile::commit.
FileSuccess(S, commitOk) == S.m_saveFile # Null /\ commitOk

\* Downloader::finished(), lines 200-206: commit and delete m_saveFile.
commitSaveFile(S, commitOk) ==
    IF S.m_saveFile = Null THEN S
    ELSE [S EXCEPT !.disk[S.m_saveFile.name] =
                       IF commitOk
                       THEN [rid |-> S.m_saveFile.rid, bytes |-> S.m_saveFile.bytes]
                       ELSE @,
                   !.temps = @ - 1,
                   !.m_saveFile = Null]

\* emit downloadFinished(m_url, m_downloadDir.filePath(m_fileName))
emitDownloadFinished(S) ==
    [S EXCEPT !.events = Append(@, [sig |-> "downloadFinished", sess |-> session,
                                    file |-> S.m_fileName])]

\* Downloader::finished()
finished(S, commitOk) ==
    IF S.replies[S.m_reply].err THEN finishedWithError(S)
    ELSE LET S1 == IF BytesAvailable(S.replies[S.m_reply]) > 0 /\ S.m_saveFile # Null
                   THEN WriteAvailable(S) ELSE S
             S2 == commitSaveFile(S1, commitOk)
             S3 == IF FileSuccess(S1, commitOk) THEN emitDownloadFinished(S2) ELSE S2
             S4 == closeReply(S3)
         IN  [S4 EXCEPT !.timeLabel = "The installer will open separately" \o "...",
                        !.visible = FALSE]

\* QWidget::hide()
hide(S) == [S EXCEPT !.visible = FALSE]

\* exit(0)
exitProcess(S) == [S EXCEPT !.exits = @ + 1]

\* A Quit that exits without aborting the request.
cancelAccepted_ExitsWithoutAbort(S, mandatory) ==
    IF mandatory THEN exitProcess(hide(S)) ELSE abortReply(hide(S))

\* Downloader::cancelDownload(), lines 306-311 and 316-320: the user accepted.
cancelAccepted(S, mandatory) ==
    LET S1 == abortReply(hide(S))
    IN  IF mandatory THEN exitProcess(S1) ELSE S1

\* A cancel of a finished download that always exits.
cancelFinished_AlwaysExits(S, mandatory) == exitProcess(hide(S))

\* Downloader::cancelDownload(), lines 323-332: the reply has finished.
cancelFinished(S, mandatory) ==
    IF mandatory THEN exitProcess(hide(S)) ELSE hide(S)

\* Conversion to uint.  A uint is 32 bits wide; the model wraps at 2^30, the
\* largest power of two TLC's integers hold twice over, which like 2^32
\* exceeds every byte count of the model.
ToUInt(x) == x % 1073741824

\* The timeString of Downloader::calculateTimeRemaining, lines 495-525, for a
\* whole number of seconds; int(x + 0.5) of a non-negative x is x rounded half
\* up, and int(timeRemaining + 0.5) > 1 exactly if timeRemaining > 1.
TimeString(timeRemaining) ==
    IF timeRemaining > 7200
    THEN LET hours == (timeRemaining + 1800) \div 3600
         IN  IF hours > 1 THEN "about " \o ToString(hours) \o " hours"
             ELSE "about one hour"
    ELSE IF timeRemaining > 60
    THEN LET minutes == (timeRemaining + 30) \div 60
         IN  IF minutes > 1 THEN ToString(minutes) \o " minutes" ELSE "1 minute"
    ELSE LET seconds == timeRemaining
         IN  IF seconds > 1 THEN ToString(seconds) \o " seconds" ELSE "1 second"

\* Downloader::calculateTimeRemaining(received, total) with 0 <= received <=
\* total.  received / difference is a division of integers; when it is 0 the
\* division by it is undefined: the process traps (trap), or goes on with some
\* quotient (quotient).
calculateTimeRemaining(S, received, total, trap, quotient) ==
    LET difference == ToUInt(S.now - S.m_startTime)
    IN  IF difference > 0
        THEN LET rate == received \div difference
                 timeRemaining == IF rate = 0 THEN quotient
                                  ELSE (total - received) \div rate
             IN  IF rate = 0 /\ trap THEN [S EXCEPT !.crashed = TRUE]
                 ELSE [S EXCEPT !.timeLabel =
                           "Time remaining" \o ": " \o TimeString(timeRemaining)]
        ELSE S

\* Downloader::updateProgress(received, total)
updateProgress(S, received, total, trap, quotient) ==
    IF total > 0 THEN calculateTimeRemaining(S, received, total, trap, quotient)
    ELSE [S EXCEPT !.timeLabel = "Time Remaining" \o ": " \o "Unknown"]

\* What the last step was: op names the handler ("other" for the ones no
\* property asks about); a and b are two facts about it, named where they are
\* set.
Last(op, a, b) == [op |-> op, a |-> a, b |-> b]

\* The process is alive: no exit(0) and no trap so far.
Running == exits = 0 /\ ~crashed

(***************************************************************************)
(* Calls of the host.                                                      *)
(***************************************************************************)
\* a: an uncommitted staging file was open when the call was made.
StartDownload(url, maxReplies, maxSessions, bodyLen) ==
    /\ Running
    /\ Len(replies) < maxReplies /\ session < maxSessions
    /\ Apply(startDownload(St, url, bodyLen))
    /\ session' = session + 1
    /\ last' = Last("startDownload", m_saveFile # Null, FALSE)
    /\ UNCHANGED <<now, m_mandatoryUpdate, cancelled>>

SetFileName(file) ==
    /\ Running
    /\ Apply(setFileName(St, file))
    /\ last' = Last("other", FALSE, FALSE)
    /\ UNCHANGED <<now, m_mandatoryUpdate, session, cancelled>>

SetMandatoryUpdate(mandatory_update) ==
    /\ Running
    /\ m_mandatoryUpdate' = mandatory_update
    /\ last' = Last("other", FALSE, FALSE)
    /\ UNCHANGED <<replies, m_reply, m_fileName, m_saveFile, visible, disk, temps,
                   events, session, exits, now, m_startTime, timeLabel, crashed,
                   cancelled>>

\* A cancelDownload that aborts whatever the user answers.
cancelDownload_IgnoresAnswer(S, mandatory, accept) ==
    IF ~IsFinished(S.replies[S.m_reply])
    THEN cancelAccepted(S, mandatory)
    ELSE cancelFinished(S, mandatory)

\* Downloader::cancelDownload(); accept is the button box.exec() returns with
\* (Quit or Yes) when the prompt is shown.  No signal is delivered while the
\* prompt is open.
cancelDownload(S, mandatory, accept) ==
    IF ~IsFinished(S.replies[S.m_reply])
    THEN IF accept THEN cancelAccepted(S, mandatory) ELSE S
    ELSE cancelFinished(S, mandatory)

\* op: "cancelAccepted", "cancelDeclined" or "cancelFinished";
\* a: m_mandatoryUpdate; b: a staging file was open when the call was made.
CancelDownload(accept) ==
    /\ Running
    /\ m_reply # 0
    /\ Apply(cancelDownload(St, m_mandatoryUpdate, accept))
    /\ last' = Last(IF IsFinished(replies[m_reply]) THEN "cancelFinished"
                    ELSE IF accept THEN "cancelAccepted" ELSE "cancelDeclined",
                    m_mandatoryUpdate, m_saveFile # Null)
    /\ cancelled' = IF accept /\ ~IsFinished(replies[m_reply])
                    THEN cancelled \cup {<<session, Len(events)>>}
                    ELSE cancelled
    /\ UNCHANGED <<now, m_mandatoryUpdate, session>>

(***************************************************************************)
(* Signals of the replies.  Every reply ever created stays connected to    *)
(* the slots.                                                              *)
(***************************************************************************)
Live(i) == i \in 1..Len(replies) /\ replies[i].st = "run"

\* replies[i] emits metaDataChanged().
ReplyMetaData(i) ==
    /\ Running /\ Live(i) /\ ~replies[i].hdr /\ replies[i].url # EmptyUrl
    /\ Apply(metaDataChanged([St EXCEPT !.replies[i].hdr = TRUE]))
    /\ last' = Last("other", FALSE, FALSE)
    /\ UNCHANGED <<now, m_mandatoryUpdate, session, cancelled>>

\* replies[i] receives a byte of its body and emits readyRead().
ReplyReadyRead(i, openOk, maxReplies, bodyLen) ==
    /\ Running /\ Live(i) /\ replies[i].hdr /\ replies[i].rcv < replies[i].len
    /\ LET S == processReceivedData([St EXCEPT !.replies[i].rcv = @ + 1], openOk,
                                     bodyLen)
       IN  /\ Len(S.replies) <= maxReplies
           /\ Apply(S)
    /\ last' = Last("other", FALSE, FALSE)
    /\ UNCHANGED <<now, m_mandatoryUpdate, session, cancelled>>

\* replies[i] ends, with or without a transport error, and emits finished().
\* a: the reply m_reply points to has ended without error when the slot runs;
\* b: the slot called QSaveFile::commit.
ReplyFinished(i, err, commitOk) ==
    /\ Running /\ Live(i)
    /\ ~err => replies[i].hdr /\ replies[i].rcv = replies[i].len
    /\ LET S == [St EXCEPT !.replies[i].st = "fin", !.replies[i].err = err]
           r == S.replies[S.m_reply]
       IN  /\ Apply(finished(S, commitOk))
           /\ last' = Last("finished", IsFinished(r) /\ ~r.err,
                           ~r.err /\ S.m_saveFile # Null)
    /\ UNCHANGED <<now, m_mandatoryUpdate, session, cancelled>>

\* replies[i] emits downloadProgress(received, total), where received is at
\* most total when total is known; trap and quotient are what an undefined
\* division does.
\* a: calculateTimeRemaining is called (total > 0) when now - m_startTime <= 0,
\*    or received <= 0, or received / elapsed is 0;
\* b: received = 500, total = 1000 and now - m_startTime = 10.
ReplyDownloadProgress(i, received, total, trap, quotient) ==
    /\ Running /\ Live(i)
    /\ received >= 0 /\ (total > 0 => received <= total)
    /\ Apply(updateProgress(St, received, total, trap, quotient))
    /\ LET elapsed == now - m_startTime
       IN  last' = Last("updateProgress",
                        /\ total > 0
                        /\ \/ elapsed <= 0 \/ received <= 0
                           \/ received \div elapsed = 0,
                        received = 500 /\ total = 1000 /\ elapsed = 10)
    /\ UNCHANGED <<now, m_mandatoryUpdate, session, cancelled>>

\* The system clock is set to t: it moves on, or is set back.
Tick(t) ==
    /\ Running
    /\ now' = t
    /\ last' = Last("other", FALSE, FALSE)
    /\ UNCHANGED <<replies, m_reply, m_fileName, m_saveFile, m_mandatoryUpdate,
                   visible, disk, temps, events, session, exits, m_startTime,
                   timeLabel, crashed, cancelled>>

\* The host calls setFileName(file) with any string.
\* a: FALSE (the name comes from the host).
HostFileName(file) ==
    /\ Running
    /\ Apply(setFileName(St, file))
    /\ last' = Last("fileName", FALSE, FALSE)
    /\ UNCHANGED <<now, m_mandatoryUpdate, session, cancelled>>

\* metaDataChanged() finds the header  x; filename=<value>  on m_reply.
\* a: TRUE (the name comes from a Content-Disposition header).
HeaderFileName(value) ==
    /\ Running
    /\ Apply(metaDataChangedOn(St, << <<"x", ";", " ">> \o FilenameToken \o value >>))
    /\ last' = Last("fileName", TRUE, FALSE)
    /\ UNCHANGED <<now, m_mandatoryUpdate, session, cancelled>>

\* The steps of a run of at most maxReplies requests, at most maxSessions of
\* them started by the host, every response body bodyLen bytes long, and
\* QSaveFile::open and QSaveFile::commit returning a value in FsResults.
NextWithin(maxReplies, maxSessions, bodyLen, FsResults) ==
    \/ \E url \in URLs : StartDownload(url, maxReplies, maxSessions, bodyLen)
    \/ \E file \in HostFileNames : SetFileName(file)
    \/ \E b \in BOOLEAN : SetMandatoryUpdate(b)
    \/ \E accept \in BOOLEAN : CancelDownload(accept)
    \/ \E i \in 1..maxReplies : ReplyMetaData(i)
    \/ \E i \in 1..maxReplies, openOk \in FsResults :
           ReplyReadyRead(i, openOk, maxReplies, bodyLen)
    \/ \E i \in 1..maxReplies, err \in BOOLEAN, commitOk \in FsResults :
           ReplyFinished(i, err, commitOk)

Next == NextWithin(MaxReplies, MaxReplies, BodyLen, BOOLEAN)

Spec == Init /\ [][Next]_vars

\* Longer runs on a file system that does not fail: one more request and one
\* more byte in every body, the host starting at most MaxReplies downloads.
NextWide == NextWithin(MaxReplies + 1, MaxReplies, BodyLen + 1, {TRUE})

SpecWide == Init /\ [][NextWide]_vars

\* Runs in which the host may also pass the empty URL to startDownload.
NextAnyUrl ==
    \/ Next
    \/ StartDownload(EmptyUrl, MaxReplies, MaxReplies, BodyLen)

SpecAnyUrl == Init /\ [][NextAnyUrl]_vars

\* Filename resolution on its own: every string of at most MaxNameLen
\* characters of NameChars, passed by the host or found in a header.
NameChars == {"a", "/", "\"", ";", " "}
NameStrings == UNION {[1..n -> NameChars] : n \in 0..MaxNameLen}

NextNames ==
    \/ \E file \in NameStrings : HostFileName(file)
    \/ \E value \in NameStrings : HeaderFileName(value)

SpecNames == Init /\ [][NextNames]_vars

\* The progress display of one download: the clock reads a value of
\* ClockValues, and downloadProgress reports received of total bytes, total
\* being -1 when the length is not known.
ClockValues == {0, 1, 10, 20}
ProgressTotals == {-1, 1000, 100000}
ProgressReceived == {0, 1, 5, 500, 1000}
Quotients == {0, 61, 7201}

NextProgress ==
    \/ StartDownload("g", 1, 1, BodyLen)
    \/ \E t \in ClockValues : Tick(t)
    \/ \E received \in ProgressReceived, total \in ProgressTotals,
          trap \in BOOLEAN, quotient \in Quotients :
           ReplyDownloadProgress(1, received, total, trap, quotient)

SpecProgress == Init /\ [][NextProgress]_vars

(***************************************************************************)
(* Properties.                                                             *)
(***************************************************************************)
EventsOf(s) == {i \in 1..Len(events) : events[i].sess = s}

\* The reply m_reply points to has reached a terminal state.
Terminal == m_reply # 0 /\ IsFinished(replies[m_reply])

\* A file holds the whole body of a reply that ended without error.
CompleteBody(c) ==
    /\ c.bytes = [i \in 1..replies[c.rid].len |-> i]
    /\ IsFinished(replies[c.rid]) /\ ~replies[c.rid].err

\* C1: commit is invoked if and only if the transport's terminal state is
\* success: whenever the finished slot has run, it called commit exactly if
\* the request of the session has ended without error; and in every other
\* terminal state the staging file is gone.
C1_CommitIffSuccess ==
    /\ last.op = "finished" => (last.b <=> last.a)
    /\ Terminal /\ replies[m_reply].err /\ last.op = "finished" =>
           m_saveFile = Null /\ temps = 0

\* C2: the file at a final path is absent, or what it was before, or the whole
\* body of a transfer that ended without error; never part of a body.
C2_NoPartialContent ==
    \A n \in FileNames : disk[n] \in {Absent, Old} \/ CompleteBody(disk[n])

\* C3: downloadFinished is emitted at most once per session.
C3_OneCompletionPerSession ==
    \A s \in 1..session : Cardinality(EventsOf(s)) <= 1

\* C10: when the request of the session has ended with a transport error, a
\* failure signal has been emitted to the host; every terminal state has
\* emitted a completion or a failure signal.
C10_FailureEventEmitted ==
    /\ last.op = "finished" /\ Terminal /\ replies[m_reply].err =>
           \E i \in EventsOf(session) : events[i].sig = "failure"
    /\ last.op = "finished" /\ Terminal =>
           \E i \in EventsOf(session) :
               events[i].sig \in {"downloadFinished", "failure"}

\* C4: when the host has started one download and, after a chain of
\* m_reply - 1 redirects, the response of the final URL has ended without
\* error and the finished slot has committed, the session has emitted exactly
\* one downloadFinished, a final file holds the whole body fetched from the
\* final URL, and no temporary file is left.
C4_RedirectChainOneFile ==
    /\ session = 1
    /\ last.op = "finished" /\ last.a /\ last.b
    /\ RedirectOf(replies[m_reply].url) = ""
    => /\ Cardinality(EventsOf(session)) = 1
       /\ \E n \in FileNames :
              /\ disk[n] \notin {Absent, Old}
              /\ disk[n].rid = m_reply /\ CompleteBody(disk[n])
       /\ temps = 0

\* C7: once the user has confirmed the cancel prompt of a download in flight,
\* no downloadFinished is emitted for that session any more.
C7_NoCompletionAfterCancel ==
    \A c \in cancelled : \A i \in EventsOf(c[1]) : i <= c[2]

\* C5: when startDownload runs while an uncommitted staging file is open, the
\* file is discarded, not committed: the step that installs the new request
\* leaves no QSaveFile and no temporary file, and changes no final file and
\* emits no signal.
C5_SupersededArtifactDiscarded ==
    [][m_saveFile # Null /\ m_reply' # m_reply =>
           /\ m_saveFile' = Null /\ temps' = 0
           /\ disk' = disk /\ events' = events]_vars

C5_Witness == last.op = "startDownload" /\ last.a /\ session = 2

C8_DeclineIsNoOp ==
    [][last'.op = "cancelDeclined" =>
           /\ ~IsFinished(replies'[m_reply'])
           /\ UNCHANGED <<replies, m_reply, m_fileName, m_saveFile,
                          m_mandatoryUpdate, visible, disk, temps, events,
                          session, exits, m_startTime, timeLabel, crashed>>]_vars

C8_Witness ==
    /\ last.op = "cancelDeclined" /\ last.b
    /\ ~IsFinished(replies[m_reply]) /\ m_saveFile # Null /\ exits = 0

\* C9: when cancelDownload is called and the request has finished, the
\* outcome is the same whatever a prompt would have answered: a mandatory
\* download calls exit, an optional one only hides the dialog and does not
\* exit.
C9_CancelAfterFinish ==
    [][Terminal /\ last'.op = "cancelFinished" =>
           /\ exits' = IF m_mandatoryUpdate THEN exits + 1 ELSE exits
           /\ ~visible'
           /\ UNCHANGED <<replies, m_reply, m_fileName, m_saveFile, disk,
                          temps, events>>]_vars

C9_Witness == last.op = "cancelFinished" /\ last.a /\ exits = 1 /\ Terminal

\* C11: whenever the finished slot commits the staging file, the file that
\* appears at the final path holds exactly the bytes the request has received,
\* each once and in order: as many bytes as the final bytesReceived.
C11_WrittenEqualsReceived ==
    [][last'.op = "finished" /\ last'.b =>
           LET f == disk'[m_saveFile.name]
               r == replies'[m_reply]
           IN  /\ f \notin {Absent, Old}
               /\ f.rid = m_reply
               /\ f.bytes = [i \in 1..r.rcv |-> i]]_vars

\* C14: calculateTimeRemaining never divides by zero.  When it is called with
\* elapsed <= 0, or received <= 0, or received / elapsed being 0, it leaves
\* the time label as it is and the process alive; and received = 500 of total = 1000 after 10 seconds shows
\* "10 seconds".
C14_NoDivideByZero ==
    [][last'.op = "updateProgress" =>
           /\ last'.a => timeLabel' = timeLabel /\ crashed' = crashed
           /\ last'.b => timeLabel' = "Time remaining: 10 seconds"]_vars

\* C12: startDownload with an empty or malformed URL issues no request: no
\* reply exists for such a URL.
C12_EmptyUrlRejected ==
    \A i \in 1..Len(replies) : replies[i].url # EmptyUrl

\* A plain filename: not empty, and without directory separator, quote and
\* semicolon.
PlainFileName(name) ==
    /\ name # <<>>
    /\ \A i \in 1..Len(name) : name[i] \notin {"/", "\"", ";"}

\* C13: the filename that filename resolution stores, from the host or from a
\* Content-Disposition header, is a plain filename.
C13_StoredFileNameIsPlain ==
    last.op = "fileName" => PlainFileName(m_fileName)

\* C15: every staging file that was opened is committed or discarded: when
\* the process has called exit, and when every request has ended and no
\* signal can arrive any more, no QSaveFile is open and no temporary file is
\* left.
C15_CommitOrDiscard ==
    \/ exits > 0
    \/ \A i \in 1..Len(replies) : IsFinished(replies[i])
    => m_saveFile = Null /\ temps = 0

\* C16: at most one request is in flight in a session: when a redirect
\* restarts the download the request it replaces is released, so within one
\* session no two replies are live.
C16_OneRequestInFlight ==
    session = 1 => Cardinality({i \in 1..Len(replies) : Live(i)}) <= 1

\* C17: when a redirect restarts the download (a new request without a new
\* startDownload call of the host) while m_fileName is the name resolved from
\* the Content-Disposition header of the redirecting response, that name is
\* discarded: m_fileName is empty after the restart.
C17_FileNameResetOnRedirect ==
    [][/\ m_reply' # m_reply /\ session' = session
       /\ ContentDisposition(replies[m_reply]) # <<>>
       /\ m_fileName = metaDataChanged(St).m_fileName
       => m_fileName' = <<>>]_vars

\* replies[i] receives a chunk in this step.
ChunkArrives(i) == replies'[i].rcv = replies[i].rcv + 1

\* C18 as stated: a chunk that arrives while no filename has been resolved is
\* dropped: no staging file is opened, nothing is written, and nothing of the
\* chunk is kept in a buffer.
C18_ChunkDroppedWithoutName ==
    [][\A i \in 1..Len(replies) :
           /\ ChunkArrives(i)
           /\ m_fileName = <<>> /\ RedirectionTarget(replies[m_reply]) = ""
           => /\ m_saveFile' = Null /\ temps' = temps
              /\ BytesAvailable(replies'[i]) = 0]_vars

\* C18 as amended: on a data chunk, unless the response of m_reply is a
\* redirect, no request is started, no final file changes, no signal is
\* emitted and the process does not exit; and
\*  - while no filename has been resolved, no staging file is opened and
\*    nothing is read from m_reply: what has arrived stays in its buffer;
\*  - when a filename exists and no staging file is open, either the open
\*    fails and nothing is read, or the staging file is opened under that
\*    name and holds every byte m_reply has received and not yet given out.
C18_ChunkKeptUntilNamed ==
    [][\A i \in 1..Len(replies) :
           ChunkArrives(i) /\ RedirectionTarget(replies[m_reply]) = "" =>
               LET before == replies[m_reply]
                   after == replies'[m_reply]
               IN  /\ m_reply' = m_reply /\ Len(replies') = Len(replies)
                   /\ disk' = disk /\ events' = events /\ exits' = exits
                   /\ m_fileName = <<>> =>
                          /\ m_saveFile' = Null /\ temps' = temps
                          /\ after.rd = before.rd
                          /\ BytesAvailable(replies'[i]) > 0
                   /\ m_fileName # <<>> /\ m_saveFile = Null =>
                          \/ /\ m_saveFile' = Null /\ temps' = temps
                             /\ after.rd = before.rd
                          \/ /\ m_saveFile' =
                                    [name |-> m_fileName, rid |-> m_reply,
                                     bytes |-> [k \in 1..(after.rcv - before.rd) |->
                                                   before.rd + k]]
                             /\ temps' = temps + 1
                             /\ after.rd = after.rcv]_vars

\* A chunk has arrived while there was no filename: it is still unread in
\* the buffer of m_reply, and no staging file is open.
C18_Witness ==
    /\ m_reply # 0 /\ ~IsFinished(replies[m_reply])
    /\ m_fileName = <<>> /\ m_saveFile = Null
    /\ BytesAvailable(replies[m_reply]) > 0

\* C19: at most one staging file is open at any time: the temporary files on
\* disk are none, or the one of the QSaveFile m_saveFile points to; and that
\* file belongs to the request m_reply points to, the latest request of the
\* latest session.
C19_OneOpenArtifact ==
    /\ temps = IF m_saveFile = Null THEN 0 ELSE 1
    /\ m_saveFile # Null => m_saveFile.rid = m_reply

\* A staging file is open for the second request of a run.
C19_Witness == m_saveFile # Null /\ temps = 1 /\ m_reply = 2

\* C20: a readyRead or finished signal of a superseded reply (a reply other
\* than the one m_reply points to) leaves an open staging file as it is,
\* neither written to nor committed nor discarded, changes no final file, and
\* emits no downloadFinished while the request m_reply points to is in flight.
C20_StaleSignalsIgnored ==
    [][\A i \in 1..Len(replies) :
           /\ i # m_reply
           /\ ChunkArrives(i) \/ (Live(i) /\ IsFinished(replies'[i]))
           => /\ m_saveFile # Null => m_saveFile' = m_saveFile /\ temps' = temps
              /\ disk' = disk
              /\ ~IsFinished(replies[m_reply]) => events' = events]_vars

====
